---------------------------- MODULE Spec2Model ----------------------------
(***************************************************************************)
(* Model of zone_logger.py: the console session (IFitDevice), the strap   *)
(* session (PolarDevice) and the polling orchestrator (main).             *)
(*                                                                         *)
(* Conventions                                                             *)
(*  - A byte buffer is a sequence of numbers in 0..255.  Python indexes    *)
(*    from 0, so byte i of the source is element i+1 of the sequence.      *)
(*  - speed and incline are held in hundredths (the source divides the     *)
(*    raw integer by 100.0) and distance in thousandths (divided by        *)
(*    1000.0): the fields below hold the raw numerators.                   *)
(*  - A BleakClient is a record [obj, is_connected, notifying]; obj is     *)
(*    FALSE while the session's client attribute is None.                  *)
(*  - Every await of the source is a suspension point.  An action is one   *)
(*    awaited call of main() together with the synchronous code up to the  *)
(*    next one; transport events (frames, link loss, the interrupt) are    *)
(*    separate actions that interleave with them.                          *)
(*  - PolarDevice._connection_start is written and never read; it is not   *)
(*    carried in the model.                                                *)
(***************************************************************************)
EXTENDS Integers, Sequences, FiniteSets, TLC

VARIABLES
  pc,             \* position of main(): the awaited call that runs next
  ifit_address,   \* BOOLEAN: the scan found a console
  polar_address,  \* BOOLEAN: the scan found a strap
  ifit,           \* the IFitDevice object (made = FALSE while main's ifit is None)
  polar,          \* the PolarDevice object (made = FALSE while main's polar is None)
  now,            \* time.time()
  interrupted,    \* the external interrupt signal was delivered
  exc,            \* the call whose exception is leaving main(), "none" if none
  ticks,          \* iterations of the polling loop started
  samples,        \* rows handed to csv_writer.writerow after the header
  row,            \* the last row written (speed, incline, distance, hr)
  closes,         \* number of close() calls made on each session
  data,           \* the last buffer delivered to a notification handler
  prev,           \* the decoded fields just before that delivery
  upd,            \* what the last PolarDevice.update() did
  reads,          \* battery reads: time of the last one issued, successes so far
  accepting       \* the strap's device answers every connect and subscription
                  \* from now on

vars == << pc, ifit_address, polar_address, ifit, polar, now, interrupted, exc,
           ticks, samples, row, closes, data, prev, upd, reads, accepting >>

-----------------------------------------------------------------------------
(* Bounds of the model *)

\* Polling-loop iterations explored.
MaxTicks == 3
\* time.time() when the program starts (any value above BATTERY_PERIOD).
StartTime == 100
\* A tick that takes long (slow transport calls on top of the 1 s sleep).
LongTick == 30
\* Ticks explored by the strap-only specification.
MaxStrapTicks == 6
\* Bytes that may follow the telemetry block in a console frame.
MaxExtra == 1
\* Longest heart-rate buffer explored.
MaxHrLen == 4
\* Ticks over which the clock and the counters of the unbounded
\* specification are followed.
LiveHorizon == 3

(* Program constants *)

\* update(): time.time() - self._last_battery_read > 60
BATTERY_PERIOD == 60
\* _notification_handler: start = idx + 5
BLOCK_OFFSET == 5
\* main(): await asyncio.sleep(1) between ticks
TICK_SLEEP == 1
\* main(): await asyncio.sleep(3) before the loop
START_SLEEP == 3
\* IFitDevice.setup(): await asyncio.sleep(2)
SETTLE_SLEEP == 2

\* bytes.fromhex("2e042e02")
SIGNATURE == << 46, 4, 46, 2 >>

\* IFIT_INIT_SEQUENCE and IFIT_POLL_SEQUENCE, by packet name
IFIT_INIT_SEQUENCE == << "init0", "init1", "init2", "init3" >>
IFIT_POLL_SEQUENCE == << "poll0", "poll1", "poll2" >>

-----------------------------------------------------------------------------
(* Python byte-string primitives *)

Min(a, b) == IF a < b THEN a ELSE b

\* data[a:b] for 0 <= a <= b: a slice never raises, it is cut at the end.
Slice(d, a, b) == SubSeq(d, Min(a, Len(d)) + 1, Min(b, Len(d)))

\* int.from_bytes(bs, byteorder='little'); the empty string gives 0.
RECURSIVE FromBytesLittle(_)
FromBytesLittle(bs) ==
  IF bs = << >> THEN 0 ELSE Head(bs) + 256 * FromBytesLittle(Tail(bs))

\* The search taking the last occurrence (rfind) instead of the first.
FindLast(d, pat) ==
  LET hits == { i \in 0 .. (Len(d) - Len(pat)) : SubSeq(d, i + 1, i + Len(pat)) = pat }
  IN  IF hits = {} THEN -1 ELSE CHOOSE i \in hits : \A j \in hits : i >= j

\* The search comparing only the first three bytes of the pattern.
FindPrefix(d, pat) ==
  LET hits == { i \in 0 .. (Len(d) - 3) : SubSeq(d, i + 1, i + 3) = SubSeq(pat, 1, 3) }
  IN  IF hits = {} THEN -1 ELSE CHOOSE i \in hits : \A j \in hits : i <= j

\* data.find(pat): the lowest 0-based index where pat occurs, -1 if none.
Find(d, pat) ==
  LET hits == { i \in 0 .. (Len(d) - Len(pat)) : SubSeq(d, i + 1, i + Len(pat)) = pat }
  IN  IF hits = {} THEN -1 ELSE CHOOSE i \in hits : \A j \in hits : i <= j

-----------------------------------------------------------------------------
(* Console session: class IFitDevice *)

NoClient == [ obj |-> FALSE, is_connected |-> FALSE, notifying |-> FALSE ]

\* BleakClient(address): a fresh handle, link down, nothing subscribed.
NewClient == [ obj |-> TRUE, is_connected |-> FALSE, notifying |-> FALSE ]

\* IFitDevice.__init__; written: the packets the transport acknowledged
\* during the latest setup() or update().
IFitInit ==
  [ made |-> FALSE, client |-> NoClient, speed |-> 0, incline |-> 0,
    distance |-> 0, connected |-> FALSE, written |-> << >> ]

\* What client.connect() can do: link up, return with the link down, raise.
ConnectOutcomes == { "up", "down", "raise" }

\* IFitDevice.connect(): no try block, an exception of client.connect()
\* leaves the method.  Result: the device and whether an exception left.
IFitConnect(dev, o) ==
  IF o = "raise"
  THEN [ dev |-> [ dev EXCEPT !.client = NewClient ], raised |-> TRUE ]
  ELSE [ dev |-> [ dev EXCEPT !.client = [ NewClient EXCEPT !.is_connected = (o = "up") ],
                              !.connected = (o = "up") ],
         raised |-> FALSE ]

\* The packets of seq acknowledged when write number fail_at is rejected
\* (fail_at = 0: none is rejected).
Acked(seq, fail_at) ==
  IF fail_at = 0 THEN seq ELSE SubSeq(seq, 1, fail_at - 1)

\* IFitDevice.setup(): o = [sub, fail_at].  start_notify and the handshake
\* writes are not guarded: a failure leaves the method as an exception.
\* On a link that is down every transport call fails.
IFitSetup(dev, o) ==
  IF ~dev.connected
  THEN [ dev |-> dev, raised |-> FALSE, slept |-> FALSE ]
  ELSE IF ~dev.client.is_connected \/ ~o.sub
  THEN [ dev |-> dev, raised |-> TRUE, slept |-> FALSE ]
  ELSE LET sub == [ dev EXCEPT !.client.notifying = TRUE ]
       IN  [ dev |-> [ sub EXCEPT !.written = Acked(IFIT_INIT_SEQUENCE, o.fail_at) ],
             raised |-> o.fail_at # 0,
             slept |-> o.fail_at = 0 ]

\* update() marking the session disconnected when a poll write fails.
IFitUpdateDropsOnFailure(dev, fail_at) ==
  IF ~dev.connected
  THEN [ dev EXCEPT !.written = << >> ]
  ELSE IF ~dev.client.is_connected
  THEN [ dev EXCEPT !.written = << >>, !.connected = FALSE ]
  ELSE [ dev EXCEPT !.written = Acked(IFIT_POLL_SEQUENCE, fail_at),
                    !.connected = (fail_at = 0) ]

\* IFitDevice.update(): fail_at is the poll write the transport rejects
\* (0: none).  Every exception of the write loop is caught and logged.
IFitUpdate(dev, fail_at) ==
  IF ~dev.connected
  THEN [ dev EXCEPT !.written = << >> ]
  ELSE IF ~dev.client.is_connected
  THEN [ dev EXCEPT !.written = << >> ]
  ELSE [ dev EXCEPT !.written = Acked(IFIT_POLL_SEQUENCE, fail_at) ]

\* IFitDevice.close(): o = [unsub, disc].  stop_notify is guarded,
\* client.disconnect() is not.
IFitClose(dev, o) ==
  IF ~(dev.client.obj /\ dev.connected)
  THEN [ dev |-> dev, raised |-> FALSE ]
  ELSE LET unsub == IF o.unsub /\ dev.client.is_connected
                    THEN [ dev EXCEPT !.client.notifying = FALSE ]
                    ELSE dev
       IN  IF o.disc
           THEN [ dev |-> [ unsub EXCEPT !.client.is_connected = FALSE,
                                         !.client.notifying = FALSE ],
                  raised |-> FALSE ]
           ELSE [ dev |-> unsub, raised |-> TRUE ]

\* The handler with the reserved 2-byte gap forgotten: distance is read
\* right after incline.
NotificationHandlerNoGap(dev, d) ==
  LET idx == Find(d, SIGNATURE)
  IN  IF idx = -1
      THEN dev
      ELSE LET start == idx + BLOCK_OFFSET
           IN  [ dev EXCEPT !.speed = FromBytesLittle(Slice(d, start, start + 2)),
                            !.incline = FromBytesLittle(Slice(d, start + 2, start + 4)),
                            !.distance = FromBytesLittle(Slice(d, start + 4, start + 6)) ]

\* The handler cut off after its first assignment: only speed is taken
\* from the frame.
NotificationHandlerCutOff(dev, d) ==
  LET idx == Find(d, SIGNATURE)
  IN  IF idx = -1
      THEN dev
      ELSE LET start == idx + BLOCK_OFFSET
           IN  [ dev EXCEPT !.speed = FromBytesLittle(Slice(d, start, start + 2)) ]

\* IFitDevice._notification_handler: the slices never raise, so once the
\* signature is found all three fields are assigned.
NotificationHandler(dev, d) ==
  LET idx == Find(d, SIGNATURE)
  IN  IF idx = -1
      THEN dev
      ELSE LET start == idx + BLOCK_OFFSET
               speed_raw == FromBytesLittle(Slice(d, start, start + 2))
               incline_raw == FromBytesLittle(Slice(d, start + 2, start + 4))
               distance_raw == FromBytesLittle(Slice(d, start + 6, start + 8))
           IN  [ dev EXCEPT !.speed = speed_raw, !.incline = incline_raw,
                            !.distance = distance_raw ]

-----------------------------------------------------------------------------
(* Strap session: class PolarDevice *)

\* PolarDevice.__init__
PolarInit ==
  [ made |-> FALSE, address |-> TRUE, client |-> NoClient, hr |-> 0,
    battery |-> 0, connected |-> FALSE, last_battery_read |-> 0 ]

\* PolarDevice.connect(): everything after the address test is inside the
\* try block.  "down" is a link lost during the settle delay, before
\* client.is_connected is sampled.
PolarConnect(dev, o) ==
  IF ~dev.address
  THEN dev
  ELSE IF o = "raise"
  THEN [ dev EXCEPT !.client = NewClient, !.connected = FALSE ]
  ELSE [ dev EXCEPT !.client = [ NewClient EXCEPT !.is_connected = (o = "up") ],
                    !.connected = (o = "up") ]

\* PolarDevice._on_disconnect
OnDisconnect(dev) == [ dev EXCEPT !.connected = FALSE ]

\* start_notify succeeds: the transport accepts it (sub) on a link that is up.
StartNotifyOk(dev, sub) == sub /\ dev.client.is_connected

\* PolarDevice.setup()
PolarSetup(dev, sub) ==
  IF ~dev.connected
  THEN dev
  ELSE IF StartNotifyOk(dev, sub)
  THEN [ dev EXCEPT !.client.notifying = TRUE ]
  ELSE [ dev EXCEPT !.connected = FALSE ]

\* What read_gatt_char can do: raise, or return a buffer (possibly empty).
BattReplies ==
  { [ ok |-> FALSE, val |-> << >> ], [ ok |-> TRUE, val |-> << >> ],
    [ ok |-> TRUE, val |-> << 87 >> ] }

\* The read of _read_battery completes: batt[0] raises IndexError on an
\* empty reply, like a transport error.
BattReadOk(reply) == reply.ok /\ Len(reply.val) > 0

\* PolarDevice._read_battery, with the try of update() around it: on any
\* exception neither field is assigned.
ReadBattery(dev, t, reply) ==
  IF BattReadOk(reply)
  THEN [ dev EXCEPT !.battery = reply.val[1], !.last_battery_read = t ]
  ELSE dev

\* The throttle left out: a read on every update.
BatteryDueAlways(dev, t) == TRUE

\* The throttle that also lets a read through at exactly 60.
BatteryDueAtSixty(dev, t) == t - dev.last_battery_read >= BATTERY_PERIOD

\* update(): if time.time() - self._last_battery_read > 60
BatteryDue(dev, t) == t - dev.last_battery_read > BATTERY_PERIOD

\* update(): if self.client: self.connected = self.client.is_connected
Reconcile(dev) ==
  IF dev.client.obj THEN [ dev EXCEPT !.connected = dev.client.is_connected ] ELSE dev

\* The result of one update(): the device, the path taken, and whether a
\* battery read was issued and completed.
UpdResult(dev, path, conn_ok, setup_ok, read, read_ok) ==
  [ dev |-> dev, path |-> path, conn_ok |-> conn_ok, setup_ok |-> setup_ok,
    read |-> read, read_ok |-> read_ok ]

\* update(), lines 151-155: the throttled battery read.
KeepAlive(dev, t, o) ==
  IF BatteryDue(dev, t)
  THEN UpdResult(ReadBattery(dev, t, o.batt), "keepalive", FALSE, FALSE, TRUE,
                 BattReadOk(o.batt))
  ELSE UpdResult(dev, "keepalive", FALSE, FALSE, FALSE, FALSE)

\* The reconnect branch without its return: the battery check runs too.
ReconnectPathFallsThrough(dev, t, o) ==
  LET c == PolarConnect(dev, o.conn)
      s == IF c.connected THEN PolarSetup(c, o.sub) ELSE c
      k == IF s.connected THEN KeepAlive(s, t, o)
           ELSE UpdResult(s, "reconnect", FALSE, FALSE, FALSE, FALSE)
  IN  UpdResult(k.dev, "reconnect", c.connected,
                c.connected /\ StartNotifyOk(c, o.sub), k.read, k.read_ok)

\* The reconnect branch that tries only once: after a connect() that
\* created a transport handle, no further attempt is made.
ReconnectPathGivesUp(dev, t, o) ==
  LET c == IF dev.client.obj THEN dev ELSE PolarConnect(dev, o.conn)
      s == IF c.connected THEN PolarSetup(c, o.sub) ELSE c
  IN  UpdResult(s, "reconnect", c.connected,
                c.connected /\ StartNotifyOk(c, o.sub), FALSE, FALSE)

\* update(), lines 145-149: connect(), setup() if connected, return.
\* conn_ok: connect() left the session connected; setup_ok: setup() ran
\* and its subscription succeeded.
ReconnectPath(dev, t, o) ==
  LET c == PolarConnect(dev, o.conn)
      s == IF c.connected THEN PolarSetup(c, o.sub) ELSE c
  IN  UpdResult(s, "reconnect", c.connected,
                c.connected /\ StartNotifyOk(c, o.sub), FALSE, FALSE)

\* update() without the test of connected: the keep-alive path always.
PolarUpdateNeverReconnects(dev, t, o) == KeepAlive(Reconcile(dev), t, o)

\* PolarDevice.update() at time t; o = [conn, sub, batt] are the answers of
\* the transport.
PolarUpdate(dev, t, o) ==
  LET r == Reconcile(dev)
  IN  IF ~r.connected THEN ReconnectPath(r, t, o) ELSE KeepAlive(r, t, o)

UpdateOutcomes ==
  [ conn : ConnectOutcomes, sub : BOOLEAN, batt : BattReplies ]

\* PolarDevice.close(): stop_notify and disconnect share one try block, so
\* a failed stop_notify skips the disconnect; nothing leaves the method.
PolarClose(dev, o) ==
  IF ~(dev.client.obj /\ dev.connected)
  THEN dev
  ELSE IF ~(o.unsub /\ dev.client.is_connected)
  THEN dev
  ELSE IF o.disc
  THEN [ dev EXCEPT !.client.is_connected = FALSE, !.client.notifying = FALSE ]
  ELSE [ dev EXCEPT !.client.notifying = FALSE ]

CloseOutcomes == [ unsub : BOOLEAN, disc : BOOLEAN ]

\* The calls close() made on the transport and how each ended: "none" for
\* a call that was not made.
PolarCloseCalls(dev, o) ==
  IF ~(dev.client.obj /\ dev.connected)
  THEN [ unsub |-> "none", disc |-> "none" ]
  ELSE IF ~(o.unsub /\ dev.client.is_connected)
  THEN [ unsub |-> "failed", disc |-> "none" ]
  ELSE [ unsub |-> "ok", disc |-> IF o.disc THEN "ok" ELSE "failed" ]

\* The handler comparing the whole flags byte with 0 instead of masking
\* bit 0.
HrHandlerNoMask(dev, d) ==
  IF Len(d) = 0
  THEN dev
  ELSE IF d[1] = 0
       THEN IF Len(d) >= 2 THEN [ dev EXCEPT !.hr = d[2] ] ELSE dev
       ELSE [ dev EXCEPT !.hr = FromBytesLittle(Slice(d, 1, 3)) ]

\* PolarDevice._hr_handler: data[1] raises on a one-byte buffer (caught),
\* the slice data[1:3] never raises.
HrHandler(dev, d) ==
  IF Len(d) = 0
  THEN dev
  ELSE LET flags == d[1]
           hr_fmt == flags % 2
       IN  IF hr_fmt = 0
           THEN IF Len(d) >= 2 THEN [ dev EXCEPT !.hr = d[2] ] ELSE dev
           ELSE [ dev EXCEPT !.hr = FromBytesLittle(Slice(d, 1, 3)) ]

-----------------------------------------------------------------------------
(* Values shared by the specifications *)

\* A field of a csv row: None, or a value.
Null == [ null |-> TRUE, val |-> 0 ]
Val(v) == [ null |-> FALSE, val |-> v ]

NoRow == [ speed |-> Null, incline |-> Null, distance |-> Null, hr |-> Null ]
\* upd: the path of the last update(), what its calls did, whether the
\* battery read was due on entry and the session state when it returned;
\* dropped: the link was lost since that update() returned; after_drop: the
\* link was lost between the update() before it and this one.
NoUpdate ==
  [ path |-> "none", conn_ok |-> FALSE, setup_ok |-> FALSE, read |-> FALSE,
    read_ok |-> FALSE, due |-> FALSE, connected |-> FALSE, dropped |-> FALSE,
    after_drop |-> FALSE ]
\* reads: when the last two battery reads were issued (-1: none), the
\* value of _last_battery_read the latest successful read replaced, and the
\* number of successful reads (counted up to 2).
NoReads == [ issued |-> -1, before |-> -1, ok_before |-> 0, ok |-> 0 ]
\* closes: how often close() was called on each session, and the transport
\* calls the strap's close() made.
NoCloses == [ ifit |-> 0, polar |-> 0, unsub |-> "none", disc |-> "none" ]

\* The decoded fields of both sessions, as a handler finds them.
Fields == [ speed |-> ifit.speed, incline |-> ifit.incline,
            distance |-> ifit.distance, hr |-> polar.hr ]

-----------------------------------------------------------------------------
(* Specification SpecFrames: one buffer delivered to a notification        *)
(* handler of a session that already holds decoded values.                 *)

\* Candidate 2-byte fields of a console frame; some spell the signature.
SpeedBytes == { << 100, 0 >>, << 46, 4 >>, << 255, 255 >> }
InclineBytes == { << 10, 0 >>, << 46, 2 >>, << 0, 1 >> }
GapBytes == { << 0, 0 >>, << 7, 7 >> }
DistanceBytes == { << 232, 3 >>, << 255, 255 >> }
\* What stands between the signature and the block: nothing, or one byte.
LeadBytes == { << >>, << 0 >>, << 9 >> }
\* What precedes the signature.
PrefixBytes == { << >>, << 1 >>, << 46, 4 >> }
\* Up to MaxExtra bytes after the block.
ExtraBytes == { [ i \in 1 .. n |-> 5 ] : n \in 0 .. MaxExtra }

\* Every prefix of a buffer: the frame cut short at any length.
Truncations(d) == { SubSeq(d, 1, n) : n \in 0 .. Len(d) }

ConsoleBodies ==
  UNION { Truncations(l \o s \o i \o g \o k \o e) :
            l \in LeadBytes, s \in SpeedBytes, i \in InclineBytes,
            g \in GapBytes, k \in DistanceBytes, e \in ExtraBytes }

\* Frames with the signature (complete and truncated) and frames without.
ConsoleInputs ==
  { p \o SIGNATURE \o b : p \in PrefixBytes, b \in ConsoleBodies }
    \cup UNION { Truncations(p \o SubSeq(SIGNATURE, 1, 3) \o << 100, 0, 10, 0 >>) :
                   p \in PrefixBytes }

HrBytes == { 0, 1, 16, 17, 60, 100 }

RECURSIVE SeqsUpTo(_, _)
SeqsUpTo(S, n) ==
  IF n = 0 THEN { << >> }
  ELSE LET shorter == SeqsUpTo(S, n - 1)
       IN  shorter \cup { Append(q, b) : q \in shorter, b \in S }

HrInputs == SeqsUpTo(HrBytes, MaxHrLen)

\* Values decoded from earlier frames.
PriorConsole == { [ speed |-> 0, incline |-> 0, distance |-> 0 ],
                  [ speed |-> 850, incline |-> 150, distance |-> 4321 ] }
PriorHr == { 0, 75 }

InitFrames ==
  /\ pc \in { "console_frame", "hr_frame" }
  /\ ifit_address = TRUE /\ polar_address = TRUE
  /\ \E f \in PriorConsole :
       ifit = [ IFitInit EXCEPT !.made = TRUE, !.speed = f.speed,
                                !.incline = f.incline, !.distance = f.distance ]
  /\ \E h \in PriorHr : polar = [ PolarInit EXCEPT !.made = TRUE, !.hr = h ]
  /\ data \in (IF pc = "console_frame" THEN ConsoleInputs ELSE HrInputs)
  /\ prev = Fields
  /\ now = StartTime /\ interrupted = FALSE /\ exc = "none"
  /\ ticks = 0 /\ samples = 0
  /\ row = NoRow /\ closes = NoCloses /\ upd = NoUpdate /\ reads = NoReads
  /\ accepting = FALSE

\* The transport hands data to IFitDevice._notification_handler.
ConsoleFrame ==
  /\ pc = "console_frame"
  /\ pc' = "console_done"
  /\ prev' = Fields
  /\ ifit' = NotificationHandler(ifit, data)
  /\ UNCHANGED << ifit_address, polar_address, polar, now, interrupted, exc,
                  ticks, samples, row, closes, data, upd, reads, accepting >>

\* The transport hands data to PolarDevice._hr_handler.
HrFrame ==
  /\ pc = "hr_frame"
  /\ pc' = "hr_done"
  /\ prev' = Fields
  /\ polar' = HrHandler(polar, data)
  /\ UNCHANGED << ifit_address, polar_address, ifit, now, interrupted, exc,
                  ticks, samples, row, closes, data, upd, reads, accepting >>

NextFrames == ConsoleFrame \/ HrFrame

SpecFrames == InitFrames /\ [][NextFrames]_vars

-----------------------------------------------------------------------------
(* Specification Spec: main(), from the end of the scan to the exit.      *)

\* Frames the console and the strap send while the program runs.
LiveConsoleFrames ==
  { SIGNATURE \o << 0, 100, 0, 10, 0, 0, 0, 232, 3 >>,
    SIGNATURE \o << 0, 200, 0, 20, 0, 0, 0, 208, 7 >> }
LiveHrFrames == { << 0, 60 >>, << 1, 100, 0 >> }

SetupOutcomes == [ sub : BOOLEAN, fail_at : 0 .. Len(IFIT_INIT_SEQUENCE) ]

\* Positions of main() outside and inside its try block, and in the loop.
BeforeTry == { "ifit_connect", "polar_connect" }
LoopPcs == { "tick_ifit", "tick_polar", "tick_emit" }
InTry == { "ifit_setup", "polar_setup", "polar_first_update", "start_log" } \cup LoopPcs

Init ==
  /\ pc = "ifit_connect"
  /\ ifit_address \in BOOLEAN /\ polar_address \in BOOLEAN
  /\ ifit = IFitInit /\ polar = PolarInit
  /\ now = StartTime /\ interrupted = FALSE /\ exc = "none"
  /\ ticks = 0 /\ samples = 0 /\ row = NoRow /\ closes = NoCloses
  /\ data = << >> /\ prev = Fields /\ upd = NoUpdate /\ reads = NoReads
  /\ accepting = FALSE

\* await polar.update() at time now, with the record of what it did.
AwaitPolarUpdate(o) ==
  LET r == PolarUpdate(polar, now, o)
  IN  /\ polar' = r.dev
      /\ upd' = [ path |-> r.path, conn_ok |-> r.conn_ok, setup_ok |-> r.setup_ok,
                  read |-> r.read, read_ok |-> r.read_ok,
                  due |-> now - polar.last_battery_read >= BATTERY_PERIOD,
                  connected |-> r.dev.connected,
                  dropped |-> FALSE, after_drop |-> upd.dropped ]
      /\ reads' = IF r.read
                  THEN [ issued |-> now, before |-> reads.issued,
                         ok_before |-> IF r.read_ok THEN polar.last_battery_read
                                       ELSE reads.ok_before,
                         ok |-> IF r.read_ok THEN Min(reads.ok + 1, 2) ELSE reads.ok ]
                  ELSE reads

\* main(), lines 205-209: an exception of ifit.connect() leaves main()
\* before its try block is entered.
MainIfitConnect ==
  /\ pc = "ifit_connect"
  /\ IF ifit_address
     THEN \E o \in ConnectOutcomes :
            LET r == IFitConnect([ IFitInit EXCEPT !.made = TRUE ], o)
            IN  /\ ifit' = r.dev
                /\ pc' = IF r.raised THEN "exited" ELSE "polar_connect"
                /\ exc' = IF r.raised THEN "ifit.connect" ELSE exc
     ELSE pc' = "polar_connect" /\ UNCHANGED << ifit, exc >>
  /\ UNCHANGED << ifit_address, polar_address, polar, now, interrupted, ticks,
                  samples, row, closes, data, prev, upd, reads, accepting >>

\* main(), lines 211-215
MainPolarConnect ==
  /\ pc = "polar_connect"
  /\ IF polar_address
     THEN \E o \in ConnectOutcomes :
            polar' = PolarConnect([ PolarInit EXCEPT !.made = TRUE ], o)
     ELSE UNCHANGED polar
  /\ pc' = "ifit_setup"
  /\ UNCHANGED << ifit_address, polar_address, ifit, now, interrupted, exc, ticks,
                  samples, row, closes, data, prev, upd, reads, accepting >>

\* main(), lines 218-219: an exception of ifit.setup() goes to finally.
MainIfitSetup ==
  /\ pc = "ifit_setup"
  /\ IF ifit.made
     THEN \E o \in SetupOutcomes :
            LET r == IFitSetup(ifit, o)
            IN  /\ ifit' = r.dev
                /\ now' = IF r.slept THEN now + SETTLE_SLEEP ELSE now
                /\ pc' = IF r.raised THEN "finally_ifit" ELSE "polar_setup"
                /\ exc' = IF r.raised THEN "ifit.setup" ELSE exc
     ELSE pc' = "polar_setup" /\ UNCHANGED << ifit, now, exc >>
  /\ UNCHANGED << ifit_address, polar_address, polar, interrupted, ticks,
                  samples, row, closes, data, prev, upd, reads, accepting >>

\* main(), lines 220-221
MainPolarSetup ==
  /\ pc = "polar_setup"
  /\ IF polar.made
     THEN /\ \E sub \in BOOLEAN : polar' = PolarSetup(polar, sub)
          /\ pc' = "polar_first_update"
     ELSE pc' = "start_log" /\ UNCHANGED polar
  /\ UNCHANGED << ifit_address, polar_address, ifit, now, interrupted, exc, ticks,
                  samples, row, closes, data, prev, upd, reads, accepting >>

\* main(), lines 223-224
MainPolarFirstUpdate ==
  /\ pc = "polar_first_update"
  /\ \E o \in UpdateOutcomes : AwaitPolarUpdate(o)
  /\ pc' = "start_log"
  /\ UNCHANGED << ifit_address, polar_address, ifit, now, interrupted, exc, ticks,
                  samples, row, closes, data, prev, accepting >>

\* main(), lines 226-237: the sleep, the csv file and its header row.
MainStartLog ==
  /\ pc = "start_log"
  /\ now' = now + START_SLEEP
  /\ pc' = "tick_ifit"
  /\ UNCHANGED << ifit_address, polar_address, ifit, polar, interrupted, exc, ticks,
                  samples, row, closes, data, prev, upd, reads, accepting >>

\* main(), lines 238-244: a tick starts; ifit.update() swallows its errors.
TickIfit ==
  /\ pc = "tick_ifit"
  /\ ticks < MaxTicks
  /\ ticks' = ticks + 1
  /\ IF ifit.made
     THEN \E fail_at \in 0 .. Len(IFIT_POLL_SEQUENCE) : ifit' = IFitUpdate(ifit, fail_at)
     ELSE UNCHANGED ifit
  /\ pc' = "tick_polar"
  /\ UNCHANGED << ifit_address, polar_address, polar, now, interrupted, exc,
                  samples, row, closes, data, prev, upd, reads, accepting >>

\* main(), lines 245-247
TickPolar ==
  /\ pc = "tick_polar"
  /\ IF polar.made
     THEN \E o \in UpdateOutcomes : AwaitPolarUpdate(o)
     ELSE UNCHANGED << polar, upd, reads >>
  /\ pc' = "tick_emit"
  /\ UNCHANGED << ifit_address, polar_address, ifit, now, interrupted, exc, ticks,
                  samples, row, closes, data, prev, accepting >>

\* csv_writer.writerow, lines 251-257: None for a session that is absent.
CsvRow ==
  [ speed |-> IF ifit.made THEN Val(ifit.speed) ELSE Null,
    incline |-> IF ifit.made THEN Val(ifit.incline) ELSE Null,
    distance |-> IF ifit.made THEN Val(ifit.distance) ELSE Null,
    hr |-> IF polar.made THEN Val(polar.hr) ELSE Null ]

\* The tick that writes its row only when a session is connected.
TickEmitSkipsIdle ==
  /\ pc = "tick_emit"
  /\ IF (ifit.made /\ ifit.connected) \/ (polar.made /\ polar.connected)
     THEN row' = CsvRow /\ samples' = samples + 1
     ELSE UNCHANGED << row, samples >>
  /\ now' = now + TICK_SLEEP
  /\ pc' = "tick_ifit"
  /\ UNCHANGED << ifit_address, polar_address, ifit, polar, interrupted, exc, ticks,
                  closes, data, prev, upd, reads, accepting >>

\* main(), lines 248-259: the summary line, the csv row, the sleep.
TickEmit ==
  /\ pc = "tick_emit"
  /\ row' = CsvRow
  /\ samples' = samples + 1
  /\ now' = now + TICK_SLEEP
  /\ pc' = "tick_ifit"
  /\ UNCHANGED << ifit_address, polar_address, ifit, polar, interrupted, exc, ticks,
                  closes, data, prev, upd, reads, accepting >>

\* The interrupt signal, delivered at the await main() is suspended in:
\* before the try block it ends the process, inside it runs finally.
Interrupt ==
  /\ pc \in BeforeTry \cup InTry
  /\ ~interrupted
  /\ interrupted' = TRUE
  /\ pc' = IF pc \in BeforeTry THEN "exited" ELSE "finally_ifit"
  /\ UNCHANGED << ifit_address, polar_address, ifit, polar, now, exc, ticks,
                  samples, row, closes, data, prev, upd, reads, accepting >>

\* main(), lines 264-265: an exception of ifit.close() leaves finally.
FinallyIfit ==
  /\ pc = "finally_ifit"
  /\ IF ifit.made
     THEN \E o \in CloseOutcomes :
            LET r == IFitClose(ifit, o)
            IN  /\ ifit' = r.dev
                /\ closes' = [ closes EXCEPT !.ifit = @ + 1 ]
                /\ pc' = IF r.raised THEN "exited" ELSE "finally_polar"
                /\ exc' = IF r.raised THEN "ifit.close" ELSE exc
     ELSE pc' = "finally_polar" /\ UNCHANGED << ifit, closes, exc >>
  /\ UNCHANGED << ifit_address, polar_address, polar, now, interrupted, ticks,
                  samples, row, data, prev, upd, reads, accepting >>

\* main(), lines 266-267
FinallyPolar ==
  /\ pc = "finally_polar"
  /\ IF polar.made
     THEN \E o \in CloseOutcomes :
            /\ polar' = PolarClose(polar, o)
            /\ closes' = [ closes EXCEPT !.polar = @ + 1,
                                         !.unsub = PolarCloseCalls(polar, o).unsub,
                                         !.disc = PolarCloseCalls(polar, o).disc ]
     ELSE UNCHANGED << polar, closes >>
  /\ pc' = "exited"
  /\ UNCHANGED << ifit_address, polar_address, ifit, now, interrupted, exc, ticks,
                  samples, row, data, prev, upd, reads, accepting >>

\* main() is suspended in an await: the transport may run callbacks.
Running ==
  pc \in BeforeTry \cup InTry
          \cup { "finally_ifit", "finally_polar", "strap_tick", "live_update",
                 "live_sleep" }

\* The console sends a frame on its subscribed characteristic.
IfitNotify ==
  /\ Running
  /\ ifit.made /\ ifit.client.is_connected /\ ifit.client.notifying
  /\ \E f \in LiveConsoleFrames : ifit' = NotificationHandler(ifit, f)
  /\ UNCHANGED << pc, ifit_address, polar_address, polar, now, interrupted, exc,
                  ticks, samples, row, closes, data, prev, upd, reads,
                  accepting >>

\* The strap sends a heart-rate frame.
PolarNotify ==
  /\ Running
  /\ polar.made /\ polar.client.is_connected /\ polar.client.notifying
  /\ \E f \in LiveHrFrames : polar' = HrHandler(polar, f)
  /\ UNCHANGED << pc, ifit_address, polar_address, ifit, now, interrupted, exc,
                  ticks, samples, row, closes, data, prev, upd, reads,
                  accepting >>

\* The console's link is lost; IFitDevice registers no callback.
IfitLinkDrop ==
  /\ Running
  /\ ifit.made /\ ifit.client.is_connected
  /\ ifit' = [ ifit EXCEPT !.client.is_connected = FALSE, !.client.notifying = FALSE ]
  /\ UNCHANGED << pc, ifit_address, polar_address, polar, now, interrupted, exc,
                  ticks, samples, row, closes, data, prev, upd, reads,
                  accepting >>

\* The strap's link is lost and the transport calls _on_disconnect.
PolarLinkDrop ==
  /\ Running
  /\ polar.made /\ polar.client.is_connected
  /\ polar' = OnDisconnect([ polar EXCEPT !.client.is_connected = FALSE,
                                          !.client.notifying = FALSE ])
  /\ upd' = [ upd EXCEPT !.dropped = TRUE ]
  /\ UNCHANGED << pc, ifit_address, polar_address, ifit, now, interrupted, exc,
                  ticks, samples, row, closes, data, prev, reads, accepting >>

Next ==
  \/ MainIfitConnect \/ MainPolarConnect \/ MainIfitSetup \/ MainPolarSetup
  \/ MainPolarFirstUpdate \/ MainStartLog
  \/ TickIfit \/ TickPolar \/ TickEmit
  \/ Interrupt \/ FinallyIfit \/ FinallyPolar
  \/ IfitNotify \/ PolarNotify \/ IfitLinkDrop \/ PolarLinkDrop

Spec == Init /\ [][Next]_vars

-----------------------------------------------------------------------------
(* Specification SpecStrap: a strap session from its construction, with   *)
(* no console, driven by update() once per tick as main() does at lines    *)
(* 223 and 246, over a long stretch of time.  A tick is the strap's        *)
(* update(), the csv row and the time until the next one: the 1 s sleep,   *)
(* or LongTick when the transport calls are slow.                          *)

TickDurations == { TICK_SLEEP, LongTick }

InitStrap ==
  /\ pc = "strap_tick"
  /\ ifit_address = FALSE /\ polar_address = TRUE
  /\ ifit = IFitInit /\ polar = [ PolarInit EXCEPT !.made = TRUE ]
  /\ now = StartTime /\ interrupted = FALSE /\ exc = "none"
  /\ ticks = 0 /\ samples = 0 /\ row = NoRow /\ closes = NoCloses
  /\ data = << >> /\ prev = Fields /\ upd = NoUpdate /\ reads = NoReads
  /\ accepting = FALSE

\* main(), lines 245-259 with ifit None: polar.update(), then the sleep.
StrapTick ==
  /\ pc = "strap_tick"
  /\ \E o \in UpdateOutcomes : AwaitPolarUpdate(o)
  /\ row' = CsvRow
  /\ samples' = samples + 1
  /\ \E d \in TickDurations : now' = now + d
  /\ ticks < MaxStrapTicks
  /\ ticks' = ticks + 1
  /\ UNCHANGED << pc, ifit_address, polar_address, ifit, interrupted, exc,
                  closes, data, prev, accepting >>

NextStrap == StrapTick \/ PolarLinkDrop

SpecStrap == InitStrap /\ [][NextStrap]_vars

-----------------------------------------------------------------------------
(* Specification SpecLive: the strap session of SpecStrap ticking without  *)
(* end.  The while True loop of main() has no exit but the interrupt and   *)
(* each of its awaits returns (connect() has a 20 s timeout), so both      *)
(* steps of a tick are taken again and again: weak fairness on each.  The  *)
(* strap's device may refuse connections for any length of time and then   *)
(* start to accept them.  The clock and the counters stop at LiveHorizon   *)
(* to keep the state space finite.                                         *)

UpTo(n, cap) == IF n < cap THEN n + 1 ELSE n

InitLive ==
  /\ pc = "live_update"
  /\ ifit_address = FALSE /\ polar_address = TRUE
  /\ ifit = IFitInit /\ polar = [ PolarInit EXCEPT !.made = TRUE ]
  /\ now = StartTime /\ interrupted = FALSE /\ exc = "none"
  /\ ticks = 0 /\ samples = 0 /\ row = NoRow /\ closes = NoCloses
  /\ data = << >> /\ prev = Fields /\ upd = NoUpdate /\ reads = NoReads
  /\ accepting = FALSE

\* main(), lines 245-246: await polar.update()
LiveUpdate ==
  /\ pc = "live_update"
  /\ \E o \in UpdateOutcomes :
       /\ accepting => (o.conn = "up" /\ o.sub)
       /\ AwaitPolarUpdate(o)
  /\ pc' = "live_sleep"
  /\ UNCHANGED << ifit_address, polar_address, ifit, now, interrupted, exc, ticks,
                  samples, row, closes, data, prev, accepting >>

\* main(), lines 248-259: the row, then await asyncio.sleep(1)
LiveSleep ==
  /\ pc = "live_sleep"
  /\ row' = CsvRow
  /\ samples' = UpTo(samples, LiveHorizon)
  /\ ticks' = UpTo(ticks, LiveHorizon)
  /\ now' = UpTo(now, StartTime + LiveHorizon)
  /\ pc' = "live_update"
  /\ UNCHANGED << ifit_address, polar_address, ifit, polar, interrupted, exc,
                  closes, data, prev, upd, reads, accepting >>

\* The strap's device comes back in range for good.
TransportSettles ==
  /\ pc \in { "live_update", "live_sleep" }
  /\ ~accepting
  /\ accepting' = TRUE
  /\ UNCHANGED << pc, ifit_address, polar_address, ifit, polar, now, interrupted,
                  exc, ticks, samples, row, closes, data, prev, upd, reads >>

NextLive == LiveUpdate \/ LiveSleep \/ TransportSettles \/ PolarLinkDrop

SpecLive ==
  InitLive /\ [][NextLive]_vars /\ WF_vars(LiveUpdate) /\ WF_vars(LiveSleep)

-----------------------------------------------------------------------------
(* Claims about the frame handlers (checked under SpecFrames) *)

\* Byte i (0-based) of the delivered buffer.
Byte(i) == data[i + 1]
\* hi<<8 | lo
Word(lo, hi) == hi * 256 + lo
\* The signature stands at 0-based index i of the delivered buffer.
SigAt(i) == i >= 0 /\ i + 4 <= Len(data) /\ \A k \in 0 .. 3 : Byte(i + k) = SIGNATURE[k + 1]
\* i is the first index where the signature stands.
FirstSigAt(i) == SigAt(i) /\ \A j \in 0 .. (i - 1) : ~SigAt(j)
ConsoleUnchanged ==
  ifit.speed = prev.speed /\ ifit.incline = prev.incline /\ ifit.distance = prev.distance

\* C6 as stated: whenever the signature stands at index i and is directly
\* followed by spd_lo spd_hi inc_lo inc_hi gap_lo gap_hi dist_lo dist_hi, the
\* handler leaves speed, incline and distance equal to the three words (in
\* hundredths, hundredths and thousandths).
C6_SignatureDirectlyFollowed ==
  pc = "console_done" =>
    \A i \in 0 .. Len(data) :
      (SigAt(i) /\ Len(data) >= i + 12) =>
        /\ ifit.speed = Word(Byte(i + 4), Byte(i + 5))
        /\ ifit.incline = Word(Byte(i + 6), Byte(i + 7))
        /\ ifit.distance = Word(Byte(i + 10), Byte(i + 11))

\* C6 amended: when the first occurrence of the signature is at index i and
\* is followed by one skipped byte and then spd_lo spd_hi inc_lo inc_hi
\* gap_lo gap_hi dist_lo dist_hi, the handler sets speed = (spd_hi<<8|spd_lo)
\* hundredths, incline = (inc_hi<<8|inc_lo) hundredths and distance =
\* (dist_hi<<8|dist_lo) thousandths; the signature, one byte and
\* 64 00 0A 00 00 00 E8 03 give 100, 10 and 1000.
C6_BlockAfterSkippedByte ==
  pc = "console_done" =>
    /\ \A i \in 0 .. Len(data) :
         (FirstSigAt(i) /\ Len(data) >= i + 13) =>
           /\ ifit.speed = Word(Byte(i + 5), Byte(i + 6))
           /\ ifit.incline = Word(Byte(i + 7), Byte(i + 8))
           /\ ifit.distance = Word(Byte(i + 11), Byte(i + 12))
    /\ data = SIGNATURE \o << 0, 100, 0, 10, 0, 0, 0, 232, 3 >> =>
         ifit.speed = 100 /\ ifit.incline = 10 /\ ifit.distance = 1000

\* C6 witness: the golden frame was decoded over older values.
C6_Witness ==
  /\ pc = "console_done"
  /\ data = SIGNATURE \o << 0, 100, 0, 10, 0, 0, 0, 232, 3 >>
  /\ prev.speed = 850
  /\ ifit.speed = 100 /\ ifit.incline = 10 /\ ifit.distance = 1000

\* C7 as stated: a frame that holds the signature at idx but fewer than
\* idx+13 bytes is discarded, none of speed, incline, distance changes.
C7_TruncatedFrameDiscarded ==
  pc = "console_done" =>
    \A i \in 0 .. Len(data) :
      (FirstSigAt(i) /\ Len(data) < i + 13) => ConsoleUnchanged

\* The heart-rate buffer is too short for the width its flags byte selects.
HrTooShort ==
  \/ Len(data) = 0
  \/ Len(data) >= 1 /\ Byte(0) % 2 = 0 /\ Len(data) < 2
  \/ Len(data) >= 1 /\ Byte(0) % 2 = 1 /\ Len(data) < 3

\* C8 as stated: an HR buffer that is empty or too short for the width its
\* flags byte selects leaves hr unchanged.
C8_ShortHrFrameIgnored ==
  pc = "hr_done" => (HrTooShort => polar.hr = prev.hr)

\* C9: for a well-formed HR buffer hr is the byte after the flags byte when
\* bit 0 of the flags is 0 and the 2-byte little-endian integer after it
\* when bit 0 is 1, whatever the other flag bits; 00 3C gives 60, 01 3C 00
\* gives 60, 01 64 00 gives 100.
C9_HrDecode ==
  pc = "hr_done" =>
    /\ (Len(data) >= 2 /\ Byte(0) % 2 = 0) => polar.hr = Byte(1)
    /\ (Len(data) >= 3 /\ Byte(0) % 2 = 1) => polar.hr = Word(Byte(1), Byte(2))
    /\ data = << 0, 60 >> => polar.hr = 60
    /\ data = << 1, 60, 0 >> => polar.hr = 60
    /\ data = << 1, 100, 0 >> => polar.hr = 100

\* C9 witness: a 16-bit value with other flag bits set replaced an older one.
C9_Witness ==
  /\ pc = "hr_done"
  /\ data = << 17, 100, 1 >>
  /\ prev.hr = 75
  /\ polar.hr = 356

\* C15: a buffer that does not hold the 4-byte signature anywhere leaves
\* speed, incline and distance as they were.
C15_NoSignatureNoChange ==
  (pc = "console_done" /\ \A i \in 0 .. Len(data) : ~SigAt(i)) => ConsoleUnchanged

\* C15 witness: a buffer holding only the first three signature bytes before
\* its payload was delivered to a session with decoded values, which it kept.
C15_Witness ==
  /\ pc = "console_done"
  /\ data = << 46, 4, 46, 100, 0, 10, 0 >>
  /\ prev.speed = 850 /\ prev.incline = 150 /\ prev.distance = 4321
  /\ ConsoleUnchanged

\* The unsigned little-endian integer of bytes [a, a+2) of the buffer.
LittleEndianAt(a) == Byte(a) + 256 * Byte(a + 1)

\* C18: with the first occurrence of the signature at idx and at least
\* idx+13 bytes in the buffer, start = idx+5 and speed, incline, distance
\* are the little-endian integers of [start, start+2), [start+2, start+4)
\* and [start+6, start+8); the bytes [start+4, start+6) are skipped and a
\* later occurrence of the signature is not used.
C18_FixedLayoutFromFirstSignature ==
  pc = "console_done" =>
    \A idx \in 0 .. Len(data) :
      (SigAt(idx) /\ (\A j \in 0 .. Len(data) : SigAt(j) => idx <= j)
         /\ Len(data) >= idx + 13) =>
        LET start == idx + 5
        IN  /\ ifit.speed = LittleEndianAt(start)
            /\ ifit.incline = LittleEndianAt(start + 2)
            /\ ifit.distance = LittleEndianAt(start + 6)

\* C18 witness: a frame whose block spells the signature a second time (at
\* index 5) and has a non-zero gap was decoded from its first occurrence.
C18_Witness ==
  /\ pc = "console_done"
  /\ data = SIGNATURE \o << 0, 46, 4, 46, 2, 7, 7, 232, 3 >>
  /\ SigAt(0) /\ SigAt(5)
  /\ ifit.speed = 1070 /\ ifit.incline = 558 /\ ifit.distance = 1000

-----------------------------------------------------------------------------
(* Claims about the orchestrator (checked under Spec) *)

\* C1 as stated: no device-level failure ends the process or keeps it from
\* the tick loop; main() leaves its try block and exits only after the
\* interrupt, and no exception of a session call leaves main().
C1_OnlyInterruptEndsProcess ==
  /\ pc \in { "finally_ifit", "finally_polar", "exited" } => interrupted
  /\ exc = "none"

\* C2 as stated: once the process has exited after an interrupt, close() was
\* called exactly once on every session that was constructed.
C2_EverySessionClosedOnce ==
  (pc = "exited" /\ interrupted) =>
    /\ closes.ifit = (IF ifit.made THEN 1 ELSE 0)
    /\ closes.polar = (IF polar.made THEN 1 ELSE 0)

\* C3: every tick writes exactly one row whatever the devices do: at the top
\* of the loop as many rows as ticks were written, inside a tick one less,
\* nothing but the interrupt takes main() out of the loop, and in the row
\* speed, incline and distance are null iff there is no console session and
\* hr is null iff there is no strap session.
C3_OneSamplePerTick ==
  /\ pc = "tick_ifit" => samples = ticks
  /\ pc \in { "tick_polar", "tick_emit" } => samples = ticks - 1
  /\ samples <= ticks /\ ticks <= samples + 1
  /\ (ticks > 0 /\ ~interrupted) => pc \in LoopPcs
  /\ samples > 0 =>
       /\ row.speed.null = ~ifit.made
       /\ row.incline.null = ~ifit.made
       /\ row.distance.null = ~ifit.made
       /\ row.hr.null = ~polar.made

\* C3 witness: two ticks done without a console and with a strap that is
\* disconnected; both rows were written, with null console fields.
C3_Witness ==
  /\ pc = "tick_ifit" /\ ticks = 2 /\ samples = 2
  /\ ~ifit.made /\ polar.made /\ ~polar.connected
  /\ upd.path = "reconnect" /\ ~upd.conn_ok
  /\ row.speed.null /\ row.incline.null /\ row.distance.null /\ ~row.hr.null

\* C10 as stated: console connect() returns normally to main() whatever the
\* transport does, with connected set iff the transport reports the link up.
C10_ConnectReturnsNormally ==
  [][ (pc = "ifit_connect" /\ pc' # "ifit_connect" /\ ifit'.made) =>
        /\ exc' = "none"
        /\ pc' = "polar_connect"
        /\ ifit'.connected = ifit'.client.is_connected ]_vars

\* C12 as stated: close() on a Connected strap session attempts the
\* unsubscribe and then the disconnect, the disconnect also when the
\* unsubscribe failed, and no failure leaves close().
C12_DisconnectAlwaysAttempted ==
  closes.unsub # "none" => closes.disc # "none"

\* C14: the first update() after the strap's link was lost and
\* _on_disconnect ran, at whatever await of main() that happened, takes the
\* reconnect path: connect(), setup() if connect() succeeded, and no
\* battery read.
C14_UpdateAfterDropReconnects ==
  upd.after_drop =>
    /\ upd.path = "reconnect" /\ ~upd.read
    /\ upd.conn_ok => (upd.setup_ok = upd.connected)
    /\ ~upd.conn_ok => ~upd.connected

\* C14 witness: a strap that had been Connected, with a battery read still
\* due, lost its link inside a tick and was reconnected by the update() of
\* that tick, which issued no battery read.
C14_Witness ==
  /\ pc = "tick_emit" /\ ticks >= 2
  /\ upd.after_drop /\ upd.due /\ reads.issued # -1
  /\ upd.path = "reconnect" /\ upd.conn_ok /\ upd.setup_ok /\ ~upd.read
  /\ polar.connected

\* C17: console update() writes nothing when the session is Disconnected;
\* when it is Connected the poll packets are written in the order of
\* IFIT_POLL_SEQUENCE, each acknowledged, up to the first write that fails;
\* a failed write is swallowed: update() returns to main() normally, the
\* transport handle is kept (no reconnect) and connected, speed, incline
\* and distance are what they were.
C17_ConsoleUpdateSwallowsFailures ==
  /\ [](ifit.made =>
         \A k \in 0 .. Len(IFIT_POLL_SEQUENCE) :
           LET u == IFitUpdate(ifit, k)
           IN  /\ u.connected = ifit.connected /\ u.client = ifit.client
               /\ u.speed = ifit.speed /\ u.incline = ifit.incline
               /\ u.distance = ifit.distance
               /\ ~ifit.connected => u.written = << >>
               /\ (ifit.connected /\ ifit.client.is_connected) =>
                    u.written = IF k = 0 THEN << "poll0", "poll1", "poll2" >>
                                ELSE SubSeq(<< "poll0", "poll1", "poll2" >>, 1, k - 1))
  /\ [][ (pc = "tick_ifit" /\ pc' # "tick_ifit" /\ ~interrupted') =>
          /\ pc' = "tick_polar" /\ exc' = exc
          /\ ifit'.connected = ifit.connected /\ ifit'.client = ifit.client
          /\ ifit'.speed = ifit.speed /\ ifit'.incline = ifit.incline
          /\ ifit'.distance = ifit.distance ]_vars

\* C17 witness: a Connected console with decoded values whose second poll
\* write failed: the first packet was acknowledged, main() went on to the
\* strap, and the session is as it was.
C17_Witness ==
  /\ pc = "tick_polar" /\ exc = "none"
  /\ ifit.made /\ ifit.connected /\ ifit.client.is_connected
  /\ ifit.written = << "poll0" >>
  /\ ifit.speed = 200 /\ ifit.incline = 20 /\ ifit.distance = 2000

\* main() ran both close() calls of its finally block after an interrupt
\* and the transport refused none of the calls they made.
CleanupCompleted ==
  /\ pc = "exited" /\ interrupted /\ exc = "none"
  /\ closes.ifit = (IF ifit.made THEN 1 ELSE 0)
  /\ closes.polar = (IF polar.made THEN 1 ELSE 0)
  /\ closes.unsub # "failed" /\ closes.disc # "failed"

\* C19 as stated: once the cleanup after an interrupt has completed, no
\* transport link opened by a session is still up, whatever the state of
\* the sessions was when the interrupt came.
C19_NoLinkLeftUp ==
  CleanupCompleted =>
    (~ifit.client.is_connected /\ ~polar.client.is_connected)

\* The speed, incline and distance words of a complete frame that starts
\* with the signature.
FrameFields(f) ==
  << f[6] + 256 * f[7], f[8] + 256 * f[9], f[12] + 256 * f[13] >>

\* C20: the speed, incline and distance of every row written come from one
\* and the same frame, or are all the initial zeros, whatever the order in
\* which frames arrive at the awaits of main().
C20_SampleFromOneFrame ==
  (samples > 0 /\ ifit.made) =>
    << row.speed.val, row.incline.val, row.distance.val >>
      \in { << 0, 0, 0 >> } \cup { FrameFields(f) : f \in LiveConsoleFrames }

\* C20 witness: a row holding the three fields of one frame, written
\* between the arrival of two different frames: the session already holds
\* the fields of the other frame.
C20_Witness ==
  /\ samples > 0 /\ ifit.made
  /\ row.speed.val = 200 /\ row.incline.val = 20 /\ row.distance.val = 2000
  /\ ifit.speed = 100 /\ ifit.incline = 10 /\ ifit.distance = 1000

-----------------------------------------------------------------------------
(* Claims about the strap ticking without end (checked under SpecLive) *)

\* C13: the strap has no terminal state.  Every update() that finds the
\* session Disconnected after reconciliation calls connect() (it returns
\* with a transport handle, on the reconnect path) and, if connect() left
\* it Connected, setup(), whatever the number of failed attempts before;
\* and once the transport accepts connect and subscription, a Disconnected
\* strap becomes Connected.
C13_DisconnectedStrapReconnects ==
  /\ [][ (pc = "live_update" /\ pc' = "live_sleep" /\ ~Reconcile(polar).connected) =>
          /\ upd'.path = "reconnect" /\ polar'.client.obj
          /\ upd'.conn_ok = (polar'.client.is_connected)
          /\ upd'.conn_ok => (upd'.setup_ok = polar'.client.notifying) ]_vars
  /\ (accepting /\ ~polar.connected) ~> polar.connected

\* C13 witness: the third update() connected and subscribed the strap
\* after the attempt of the second had failed: no link was lost since the
\* second returned, and no update() has found the session Connected yet
\* (it would have issued the battery read that is due).
C13_Witness ==
  /\ pc = "live_sleep" /\ accepting /\ ticks = 2
  /\ upd.path = "reconnect" /\ upd.conn_ok /\ upd.setup_ok
  /\ ~upd.after_drop /\ reads.issued = -1 /\ polar.hr = 0
  /\ polar.connected /\ polar.client.notifying

-----------------------------------------------------------------------------
(* Claims about the strap's update() (checked under SpecStrap) *)

\* C11 as stated: when an update() has returned, a strap that is Connected
\* has an active heart-rate subscription on its link; in particular a
\* session whose setup() failed is Connected again only after a connect()
\* and a setup() that succeeded.
C11_ConnectedStrapIsSubscribed ==
  (upd.path # "none" /\ polar.connected) =>
    (polar.client.is_connected /\ polar.client.notifying)

\* C4: an update() that finds the session Disconnected after reconciliation
\* and whose connect() and setup() both succeed returns with the session
\* Connected and issues no battery read, however long ago the last one was.
C4_ReconnectNoBatteryRead ==
  (upd.path = "reconnect" /\ upd.conn_ok /\ upd.setup_ok) =>
    (upd.connected /\ ~upd.read)

\* C4 witness: a reconnect that succeeded 60 or more time units after an
\* earlier successful battery read.
C4_Witness ==
  /\ upd.path = "reconnect" /\ upd.conn_ok /\ upd.setup_ok
  /\ reads.ok >= 1 /\ upd.due
  /\ now - polar.last_battery_read > BATTERY_PERIOD
  /\ upd.connected /\ ~upd.read

\* C5 as stated: two battery reads are never issued less than 60 time units
\* apart, whether they succeed or fail.
C5_ReadsSixtyApart ==
  reads.before # -1 => reads.issued - reads.before >= BATTERY_PERIOD

\* C5 amended: successful battery reads are more than 60 time units apart
\* (at most one per 60-unit window), across failures, disconnects and
\* reconnects.
C5_SuccessfulReadsThrottled ==
  reads.ok >= 2 => polar.last_battery_read - reads.ok_before > BATTERY_PERIOD

\* C5 witness: a second successful read, with a failed read between the two.
C5_Witness ==
  /\ reads.ok = 2
  /\ reads.ok_before >= StartTime
  /\ polar.last_battery_read - reads.ok_before > BATTERY_PERIOD
  /\ reads.before > reads.ok_before

\* What a battery read issued by the update() of this step did to the
\* session: on success battery and _last_battery_read are assigned, on
\* failure both keep their values.
BatteryReadEffect ==
  /\ upd'.read
  /\ upd'.read_ok => (polar'.battery = 87 /\ polar'.last_battery_read = now)
  /\ ~upd'.read_ok => /\ polar'.battery = polar.battery
                      /\ polar'.last_battery_read = polar.last_battery_read

\* C16 as stated: every update() that finds the session Connected after
\* reconciliation with at least 60 time units elapsed since
\* _last_battery_read, exactly 60 included, issues a battery read, which
\* assigns both fields on success and neither on failure.
C16_ReadFromSixty ==
  [][ (ticks' = ticks + 1 /\ Reconcile(polar).connected
         /\ now - polar.last_battery_read >= BATTERY_PERIOD) =>
        BatteryReadEffect ]_vars

\* C16 amended: the read is issued when more than 60 time units have
\* elapsed, and not at 60 or less; its effects are as stated.
C16_ReadAfterSixty ==
  [][ (ticks' = ticks + 1 /\ Reconcile(polar).connected) =>
        IF now - polar.last_battery_read > BATTERY_PERIOD
        THEN BatteryReadEffect
        ELSE ~upd'.read /\ polar'.battery = polar.battery
               /\ polar'.last_battery_read = polar.last_battery_read ]_vars

\* C16 witness: a Connected session whose update() came exactly 60 time
\* units after a successful read and issued none.
C16_Witness ==
  /\ upd.path = "keepalive" /\ upd.connected
  /\ upd.due /\ ~upd.read
  /\ reads.ok >= 1 /\ polar.battery = 87
  /\ polar.last_battery_read >= StartTime

=============================================================================
